---- MODULE Spec2Model ----
(***************************************************************************)
(* A model of cloud_provider/aws/aws_bid_advisor.py: the AWSBidAdvisor    *)
(* price cache, its two refresher threads (OnDemandUpdater and            *)
(* SpotInstancePriceUpdater), the lifecycle calls run() and shutdown(),    *)
(* and the readers get_new_bid() and get_current_price().                  *)
(*                                                                         *)
(* Prices are integers counting hundredths of a dollar; the one place      *)
(* where the code's binary floating point matters (threshold *             *)
(* on_demand_price in basic_bid_strategy) is computed in IEEE-754 double   *)
(* arithmetic, on mantissas too wide for one integer and so held as digit  *)
(* sequences.                                                              *)
(***************************************************************************)
EXTENDS Integers, Sequences, FiniteSets, TLC

VARIABLES
    on_demand_price_dict,     \* self.on_demand_price_dict: type -> price, None if absent
    spot_price_list,          \* self.spot_price_list: sequence of spot samples
    terminate_thread,         \* self.terminate_thread
    all_bid_advisor_threads,  \* self.all_bid_advisor_threads: sequence of thread ids
    on_demand_refresh_interval, \* self.on_demand_refresh_interval, in seconds
    lock,                     \* self.lock: its holder, or Free
    threads,                  \* the refresher thread objects, by id
    clients                   \* the caller threads: position in the call and its locals

vars == <<on_demand_price_dict, spot_price_list, terminate_thread,
          all_bid_advisor_threads, on_demand_refresh_interval, lock, threads, clients>>

----------------------------------------------------------------------------
\* Data

\* Python's None, for a price that is absent.
None == -1

InstanceTypes == {"m3.large", "c3.large"}

Zones == {"us-west-2a", "us-west-2b"}

\* Prices the on-demand feed reports, in hundredths of a dollar.
OdPrices == {0, 50, 70}

\* Prices the spot feed reports, in hundredths of a dollar.
SpotPrices == {0, 40, 56}

\* The timestamps of spot samples.
Timestamps == {1, 2}

\* The tables get_new_bid is tried on hold at most MaxSamples spot samples.
MaxSamples == 2

\* get_new_bid is called with at most MaxZones zones.
MaxZones == 2

SpotSamples ==
    [InstanceType : InstanceTypes, AvailabilityZone : Zones,
     SpotPrice : SpotPrices, Timestamp : Timestamps]

SeqsUpTo(S, n) == UNION {[1..k -> S] : k \in 0..n}

Min(S) == CHOOSE x \in S : \A y \in S : x <= y

----------------------------------------------------------------------------
\* Natural numbers of more than 31 bits, as little-endian sequences of
\* BigLen digits in base BigBase, for the 53-bit mantissas of doubles and
\* their 106-bit products.

BigBase == 8192

BigLen == 9

BigZero == [i \in 1..BigLen |-> 0]

RECURSIVE BigMulSmallFrom(_, _, _, _)
BigMulSmallFrom(a, c, i, carry) ==
    IF i > BigLen THEN <<>>
    ELSE LET v == a[i] * c + carry
         IN  <<v % BigBase>> \o BigMulSmallFrom(a, c, i + 1, v \div BigBase)

\* a * c for a small c (c < 2^17)
BigMulSmall(a, c) == BigMulSmallFrom(a, c, 1, 0)

RECURSIVE BigAddFrom(_, _, _, _)
BigAddFrom(a, b, i, carry) ==
    IF i > BigLen THEN <<>>
    ELSE LET v == a[i] + b[i] + carry
         IN  <<v % BigBase>> \o BigAddFrom(a, b, i + 1, v \div BigBase)

BigAdd(a, b) == BigAddFrom(a, b, 1, 0)

BigOfSmall(n) == BigMulSmall([i \in 1..BigLen |-> IF i = 1 THEN 1 ELSE 0], n)

RECURSIVE BigDivSmallFrom(_, _, _, _)
\* long division from the top digit down: <<quotient digits (little-endian), remainder>>
BigDivSmallFrom(a, c, i, rem) ==
    IF i = 0 THEN <<<<>>, rem>>
    ELSE LET v == rem * BigBase + a[i]
             rest == BigDivSmallFrom(a, c, i - 1, v % c)
         IN  <<rest[1] \o <<v \div c>>, rest[2]>>

\* <<a \div c, a % c>> for a small c
BigDivSmall(a, c) == BigDivSmallFrom(a, c, BigLen, 0)

\* a shifted up by k digits
BigShiftDigits(a, k) == [i \in 1..BigLen |-> IF i <= k THEN 0 ELSE a[i - k]]

RECURSIVE BigMulFrom(_, _, _)
BigMulFrom(a, b, i) ==
    IF i > BigLen THEN BigZero
    ELSE BigAdd(BigShiftDigits(BigMulSmall(a, b[i]), i - 1), BigMulFrom(a, b, i + 1))

BigMul(a, b) == BigMulFrom(a, b, 1)

\* the top digit in which a and b differ, 0 if none
BigTopDiff(a, b) ==
    LET D == {i \in 1..BigLen : a[i] # b[i]}
    IN  IF D = {} THEN 0 ELSE CHOOSE i \in D : \A j \in D : j <= i

BigLeq(a, b) == LET i == BigTopDiff(a, b) IN i = 0 \/ a[i] < b[i]

\* a >= 2^52 = BigBase^4
BigHas53Bits(a) == \E i \in 5..BigLen : a[i] # 0

\* a >= 2^105 = 2 * BigBase^8
BigHas106Bits(a) == a[9] >= 2

\* a \div 2^52 and a % 2^52 : four whole digits
BigHigh52(a) == [i \in 1..BigLen |-> IF i + 4 <= BigLen THEN a[i + 4] ELSE 0]

BigLow52(a) == [i \in 1..BigLen |-> IF i <= 4 THEN a[i] ELSE 0]

BigOdd(a) == a[1] % 2 = 1

BigHalf52 == [i \in 1..BigLen |-> IF i = 4 THEN BigBase \div 2 ELSE 0]

----------------------------------------------------------------------------
\* IEEE-754 doubles: zero, or [m, sh] standing for m / 2^sh with
\* 2^52 <= m < 2^53, rounded to nearest, ties to even.

FloatZero == [m |-> BigZero, sh |-> 0]

\* q, or q + 1 when the remainder says to round up
RoundUp(q, above_half, at_half) ==
    IF above_half \/ (at_half /\ BigOdd(q)) THEN BigAdd(q, BigOfSmall(1)) ELSE q

\* a mantissa that rounding carried to 2^53 is 2^52 one binade up
Renorm(m, sh) ==
    IF m[5] >= 2 THEN [m |-> BigDivSmall(m, 2)[1], sh |-> sh - 1]
    ELSE [m |-> m, sh |-> sh]

RECURSIVE FloatOfScaled(_, _, _)
\* the double nearest n / (den * 2^sh), n a digit sequence, found by doubling
\* n until the quotient by den has 53 bits
FloatOfScaled(n, den, sh) ==
    LET qr == BigDivSmall(n, den)
    IN  IF BigHas53Bits(qr[1])
        THEN Renorm(RoundUp(qr[1], 2 * qr[2] > den, 2 * qr[2] = den), sh)
        ELSE FloatOfScaled(BigMulSmall(n, 2), den, sh + 1)

\* float("<p/100>"): the double nearest to p hundredths
FloatOfCents(p) == IF p = 0 THEN FloatZero ELSE FloatOfScaled(BigOfSmall(p), 100, 0)

\* x * y in double arithmetic: the exact product of the mantissas, rounded
\* to 53 bits
FloatMul(x, y) ==
    IF x = FloatZero \/ y = FloatZero THEN FloatZero
    ELSE LET p == BigMul(x.m, y.m)
             hi == BigHigh52(p)
             lo == BigLow52(p)
         IN  IF BigHas106Bits(p)
             THEN Renorm(RoundUp(BigDivSmall(hi, 2)[1],
                                 BigOdd(hi) /\ lo # BigZero,
                                 BigOdd(hi) /\ lo = BigZero),
                         x.sh + y.sh - 53)
             ELSE Renorm(RoundUp(hi,
                                 lo # BigHalf52 /\ BigLeq(BigHalf52, lo),
                                 lo = BigHalf52),
                         x.sh + y.sh - 52)

\* x <= y for non-negative doubles
FloatLeq(x, y) ==
    IF x = FloatZero THEN TRUE
    ELSE IF y = FloatZero THEN FALSE
    ELSE x.sh > y.sh \/ (x.sh = y.sh /\ BigLeq(x.m, y.m))

\* The prices a comparison can meet.
AllPrices == OdPrices \cup SpotPrices

\* the literal 0.8 of bid_options, in hundredths
ThresholdCents == 80

\* spot_price <= threshold * on_demand_price as the doubles decide it,
\* tabulated once over the prices
SpotLeqThresholdTable ==
    [s \in AllPrices, d \in AllPrices |->
        FloatLeq(FloatOfCents(s), FloatMul(FloatOfCents(ThresholdCents), FloatOfCents(d)))]

----------------------------------------------------------------------------
\* The readers' pure functions

\* DEFAULT_BID: a bid with no price field
DEFAULT_BID == [type |-> "on-demand"]

\* str(on_demand_price): the price as text, a one-element sequence, so that
\* the empty string is the empty sequence
PyStr(price) == <<price>>

\* the comparison of line 264; bid_options carries the threshold in hundredths
basic_bid_strategy(spot_price, on_demand_price, bid_options) ==
    IF bid_options.spot_to_on_demand_threshold = ThresholdCents
       /\ SpotLeqThresholdTable[spot_price, on_demand_price]
    THEN [price |-> PyStr(on_demand_price), type |-> "spot"]
    ELSE [price |-> <<>>, type |-> "on-demand"]

get_on_demand_price(dict, instance_type) == dict[instance_type]

\* the first sample of the list for the type and zone, None if there is none
get_spot_instance_price(list, instance_type, zone) ==
    LET M == {i \in DOMAIN list : /\ list[i].InstanceType = instance_type
                                  /\ list[i].AvailabilityZone = zone}
    IN  IF M = {} THEN None ELSE list[Min(M)].SpotPrice

\* tmp > max_spot_price of line 308. The code is Python 2 (line 137 tests a
\* str in a line of the response), where None orders below every number.
PyGreater(tmp, max_spot_price) == tmp # None /\ tmp > max_spot_price

RECURSIVE MaxSpotFrom(_, _, _, _)
MaxSpotFrom(list, instance_type, zones, max_spot_price) ==
    IF zones = <<>> THEN max_spot_price
    ELSE LET tmp == get_spot_instance_price(list, instance_type, Head(zones))
         IN  MaxSpotFrom(list, instance_type, Tail(zones),
                         IF PyGreater(tmp, max_spot_price) THEN tmp ELSE max_spot_price)

\* A slip the maximum would show: the price of the last zone asked for wins.
LastZoneSpotPrice(list, instance_type, zones) ==
    IF zones = <<>> THEN 0
    ELSE LET tmp == get_spot_instance_price(list, instance_type, zones[Len(zones)])
         IN  IF tmp = None THEN 0 ELSE tmp

get_max_spot_prices_from_zones(list, instance_type, zones) ==
    MaxSpotFrom(list, instance_type, zones, 0)

DictEmpty(dict) == \A x \in InstanceTypes : dict[x] = None

\* A slip the default would show: get_new_bid without the test of line 328.
GetNewBidWithoutWarmTest(dict, list, zones, instance_type) ==
    LET spot_price == get_max_spot_prices_from_zones(list, instance_type, zones)
        on_demand_price == get_on_demand_price(dict, instance_type)
    IN  IF on_demand_price = None THEN [bid |-> DEFAULT_BID, logged |-> <<>>]
        ELSE [bid |-> basic_bid_strategy(spot_price, on_demand_price,
                          [spot_to_on_demand_threshold |-> ThresholdCents]),
              logged |-> <<spot_price, on_demand_price>>]

\* What get_new_bid computes under the lock: the bid, and the two prices of
\* the log line 344 when it gets that far (<<>> when it does not).
get_new_bid(dict, list, zones, instance_type) ==
    IF DictEmpty(dict) \/ list = <<>>
    THEN [bid |-> DEFAULT_BID, logged |-> <<>>]
    ELSE LET spot_price == get_max_spot_prices_from_zones(list, instance_type, zones)
             on_demand_price == get_on_demand_price(dict, instance_type)
         IN  IF spot_price = None THEN [bid |-> DEFAULT_BID, logged |-> <<>>]
             ELSE IF on_demand_price = None THEN [bid |-> DEFAULT_BID, logged |-> <<>>]
             ELSE [bid |-> basic_bid_strategy(spot_price, on_demand_price,
                               [spot_to_on_demand_threshold |-> ThresholdCents]),
                   logged |-> <<spot_price, on_demand_price>>]

----------------------------------------------------------------------------
\* The on-demand refresher's reconciliation of one row

\* A row of the price list: Relevant says whether it passes the filter of
\* lines 109-115 (hourly on-demand rate, region, Linux, no software, shared).
OdRows == [InstanceType : InstanceTypes, PricePerUnit : OdPrices, Relevant : BOOLEAN]

\* float(price) > float(old_price) of line 124 as the doubles decide it,
\* tabulated once over the prices
FloatGreaterTable ==
    [price \in OdPrices, old_price \in OdPrices |->
        ~FloatLeq(FloatOfCents(price), FloatOfCents(old_price))]

\* float(price) == 0.00 of line 122, tabulated likewise
FloatIsZeroTable == [price \in OdPrices |-> FloatOfCents(price) = FloatZero]

\* A slip the reconciliation rule would show: every row that passes the
\* filter overwrites the entry.
ParsePriceRowOverwriting(dict, row) ==
    IF ~row.Relevant THEN dict
    ELSE [dict EXCEPT ![row.InstanceType] = row.PricePerUnit]

\* the table after parse_price_row(row)
parse_price_row(dict, row) ==
    IF ~row.Relevant THEN dict
    ELSE LET old_price == dict[row.InstanceType]
         IN  IF old_price = None
             THEN [dict EXCEPT ![row.InstanceType] = row.PricePerUnit]
             ELSE IF FloatIsZeroTable[row.PricePerUnit] THEN dict
             ELSE IF FloatGreaterTable[row.PricePerUnit, old_price]
             THEN [dict EXCEPT ![row.InstanceType] = row.PricePerUnit]
             ELSE dict

RECURSIVE ParseRows(_, _)
\* the table after the loop of lines 142-143 has run over all of rows
ParseRows(dict, rows) ==
    IF rows = <<>> THEN dict ELSE ParseRows(parse_price_row(dict, Head(rows)), Tail(rows))

EmptyDict == [x \in InstanceTypes |-> None]

----------------------------------------------------------------------------
\* Threads

\* run() passes its check and creates two refreshers at most MaxLaunches times.
MaxLaunches == 2

ThreadIds == 1..(2 * MaxLaunches)

\* The caller threads that use the advisor.
Clients == {1, 2}

\* stop_max_attempt_number of the two @retry decorators
MaxAttempts == 3

SECONDS_PER_MINUTE == 60

\* The intervals the advisor can be constructed with, in seconds.
Intervals == {3600}

\* One response of the pricing URL has at most MaxRows rows.
MaxRows == 2

\* One spot fetch gathers at most MaxInfo samples over its pages.
MaxInfo == 2

Free == [who |-> "nobody", id |-> 0]

ClientHolds(c) == [who |-> "client", id |-> c]

ThreadHolds(t) == [who |-> "thread", id |-> t]

\* A thread object. pc is the refresher's position:
\*   unstarted  created by run(), start() not yet called
\*   begin      OnDemandUpdater.run at line 149
\*   loop       at the while test (line 150, line 201)
\*   request    on-demand: about to start a fetch attempt (line 132)
\*   parse      on-demand: in the loop over the rows (lines 142-143)
\*   page       spot: about to ask for a page (line 179)
\*   lock       spot: waiting for the lock (line 195)
\*   write      spot: holding the lock (line 196)
\*   sleep      in time.sleep of the finally clause (line 160, line 208)
\*   exited     run() returned;  crashed  run() ended by an exception
\* rows are the rows of the response not yet parsed, pass_rows all the rows
\* of the response (kept until the sleep after the pass ends), info the samples
\* gathered so far, last the outcome of the last finished cycle, slept the
\* time the current sleep was called with, and cycle_start remembers the
\* on-demand table as it was when the cycle in progress began.
NoThread ==
    [kind |-> "none", pc |-> "none", attempt |-> 0, rows |-> <<>>, pass_rows |-> <<>>,
     info |-> <<>>,
     last |-> "none", orig_interval |-> 0, slept |-> 0, cycle_start |-> EmptyDict]

NewThread(kind) == [NoThread EXCEPT !.kind = kind, !.pc = "unstarted"]

Dead(t) == threads[t].pc \in {"exited", "crashed"}

\* started and not yet dead: Thread.is_alive()
Alive(t) == threads[t].pc \notin {"none", "unstarted", "exited", "crashed"}

Unused == {t \in ThreadIds : threads[t].kind = "none"}

\* the thread objects that calls of run() past line 212 have yet to create
Pending ==
    2 * Cardinality({c \in DOMAIN clients : clients[c].pc = "run_223"})
    + Cardinality({c \in DOMAIN clients : clients[c].pc = "run_227"})

NoRet == [op |-> "none"]

\* A caller thread: pc is its position (idle between calls), od and spot the
\* locals on_demand_thread and spot_instance_thread of run(), i and joining
\* the position of shutdown()'s loop over the threads, ret what its last
\* call returned.
IdleClient == [pc |-> "idle", od |-> 0, spot |-> 0, i |-> 0, joining |-> 0, ret |-> NoRet]

Init ==
    /\ on_demand_price_dict = EmptyDict
    /\ spot_price_list = <<>>
    /\ terminate_thread = FALSE
    /\ all_bid_advisor_threads = <<>>
    /\ on_demand_refresh_interval \in Intervals
    /\ lock = Free
    /\ threads = [t \in ThreadIds |-> NoThread]
    /\ clients = [c \in Clients |-> IdleClient]

----------------------------------------------------------------------------
\* OnDemandUpdater

\* line 149
OdBegin(t) ==
    /\ threads[t].kind = "od" /\ threads[t].pc = "begin"
    /\ threads' = [threads EXCEPT ![t].orig_interval = on_demand_refresh_interval,
                                  ![t].pc = "loop"]
    /\ UNCHANGED <<on_demand_price_dict, spot_price_list, terminate_thread,
                   all_bid_advisor_threads, on_demand_refresh_interval, lock, clients>>

\* A slip shutdown() would show: a loop that does not test the flag.
OdLoopForever(t) ==
    /\ threads[t].kind = "od" /\ threads[t].pc = "loop"
    /\ threads' = [threads EXCEPT ![t].pc = "request", ![t].attempt = 1,
                                  ![t].cycle_start = on_demand_price_dict]
    /\ UNCHANGED <<on_demand_price_dict, spot_price_list, terminate_thread,
                   all_bid_advisor_threads, on_demand_refresh_interval, lock, clients>>

\* A slip the keeping of the table would show: each cycle starts from an
\* empty table.
OdLoopClearingTable(t) ==
    /\ threads[t].kind = "od" /\ threads[t].pc = "loop"
    /\ on_demand_price_dict' = IF terminate_thread THEN on_demand_price_dict ELSE EmptyDict
    /\ threads' = [threads EXCEPT
           ![t].pc = IF terminate_thread THEN "exited" ELSE "request",
           ![t].attempt = IF terminate_thread THEN 0 ELSE 1]
    /\ UNCHANGED <<spot_price_list, terminate_thread,
                   all_bid_advisor_threads, on_demand_refresh_interval, lock, clients>>

\* line 150: leave the loop, or start a cycle with its first attempt
OdLoop(t) ==
    /\ threads[t].kind = "od" /\ threads[t].pc = "loop"
    /\ threads' = [threads EXCEPT
           ![t].pc = IF terminate_thread THEN "exited" ELSE "request",
           ![t].attempt = IF terminate_thread THEN 0 ELSE 1,
           ![t].cycle_start = IF terminate_thread THEN EmptyDict ELSE on_demand_price_dict]
    /\ UNCHANGED <<on_demand_price_dict, spot_price_list, terminate_thread,
                   all_bid_advisor_threads, on_demand_refresh_interval, lock, clients>>

\* lines 132-141: the response arrives, with these rows after its header
OdRequest(t, rows) ==
    /\ threads[t].kind = "od" /\ threads[t].pc = "request"
    /\ threads' = [threads EXCEPT ![t].pc = "parse", ![t].rows = rows,
                                  ![t].pass_rows = rows]
    /\ UNCHANGED <<on_demand_price_dict, spot_price_list, terminate_thread,
                   all_bid_advisor_threads, on_demand_refresh_interval, lock, clients>>

\* lines 142-143: one row, written to the table without the lock
OdParseRow(t) ==
    /\ threads[t].kind = "od" /\ threads[t].pc = "parse"
    /\ threads[t].rows # <<>>
    /\ on_demand_price_dict' = parse_price_row(on_demand_price_dict, Head(threads[t].rows))
    /\ threads' = [threads EXCEPT ![t].rows = Tail(threads[t].rows)]
    /\ UNCHANGED <<spot_price_list, terminate_thread, all_bid_advisor_threads,
                   on_demand_refresh_interval, lock, clients>>

\* lines 145, 153, 160: the attempt ends well, the interval is restored and
\* the thread sleeps for it
OdParseDone(t) ==
    /\ threads[t].kind = "od" /\ threads[t].pc = "parse"
    /\ threads[t].rows = <<>>
    /\ on_demand_refresh_interval' = threads[t].orig_interval
    /\ threads' = [threads EXCEPT ![t].pc = "sleep", ![t].attempt = 0, ![t].last = "ok",
                                  ![t].slept = threads[t].orig_interval,
                                  ![t].cycle_start = EmptyDict]
    /\ UNCHANGED <<on_demand_price_dict, spot_price_list, terminate_thread,
                   all_bid_advisor_threads, lock, clients>>

\* The attempt raises: requests.get, the assert of line 140, or the stream
\* while the rows are read. @retry starts the next attempt; after the last
\* one the exception reaches lines 154-160.
OdAttemptFail(t) ==
    /\ threads[t].kind = "od" /\ threads[t].pc \in {"request", "parse"}
    /\ IF threads[t].attempt < MaxAttempts
       THEN /\ threads' = [threads EXCEPT ![t].pc = "request", ![t].rows = <<>>,
                                          ![t].pass_rows = <<>>,
                                          ![t].attempt = threads[t].attempt + 1]
            /\ UNCHANGED on_demand_refresh_interval
       ELSE /\ on_demand_refresh_interval' = 2 * SECONDS_PER_MINUTE
            /\ threads' = [threads EXCEPT ![t].pc = "sleep", ![t].rows = <<>>,
                                          ![t].pass_rows = <<>>,
                                          ![t].attempt = 0, ![t].last = "failed",
                                          ![t].slept = 2 * SECONDS_PER_MINUTE,
                                          ![t].cycle_start = EmptyDict]
    /\ UNCHANGED <<on_demand_price_dict, spot_price_list, terminate_thread,
                   all_bid_advisor_threads, lock, clients>>

\* A slip the refresher's survival would show: the exception of a failed
\* cycle leaves run() after the sleep, as in the spot refresher.
OdWakeRaising(t) ==
    /\ threads[t].kind = "od" /\ threads[t].pc = "sleep"
    /\ threads' = [threads EXCEPT
           ![t].pc = IF threads[t].last = "failed" THEN "crashed" ELSE "loop",
           ![t].slept = 0, ![t].pass_rows = <<>>]
    /\ UNCHANGED <<on_demand_price_dict, spot_price_list, terminate_thread,
                   all_bid_advisor_threads, on_demand_refresh_interval, lock, clients>>

\* line 160 returns
OdWake(t) ==
    /\ threads[t].kind = "od" /\ threads[t].pc = "sleep"
    /\ threads' = [threads EXCEPT ![t].pc = "loop", ![t].slept = 0,
                                  ![t].pass_rows = <<>>]
    /\ UNCHANGED <<on_demand_price_dict, spot_price_list, terminate_thread,
                   all_bid_advisor_threads, on_demand_refresh_interval, lock, clients>>

----------------------------------------------------------------------------
\* SpotInstancePriceUpdater

\* line 201: leave the loop, or start a cycle with its first attempt
SpotLoop(t) ==
    /\ threads[t].kind = "spot" /\ threads[t].pc = "loop"
    /\ threads' = [threads EXCEPT
           ![t].pc = IF terminate_thread THEN "exited" ELSE "page",
           ![t].attempt = IF terminate_thread THEN 0 ELSE 1]
    /\ UNCHANGED <<on_demand_price_dict, spot_price_list, terminate_thread,
                   all_bid_advisor_threads, on_demand_refresh_interval, lock, clients>>

\* A slip the whole-fetch rule would show: each page is put into the cached
\* list as it arrives.
SpotPageWritingThrough(t, page, more) ==
    /\ threads[t].kind = "spot" /\ threads[t].pc = "page"
    /\ Len(threads[t].info) + Len(page) <= MaxInfo
    /\ spot_price_list' = threads[t].info \o page
    /\ threads' = [threads EXCEPT ![t].info = threads[t].info \o page,
                                  ![t].pc = IF more THEN "page" ELSE "lock"]
    /\ UNCHANGED <<on_demand_price_dict, terminate_thread,
                   all_bid_advisor_threads, on_demand_refresh_interval, lock, clients>>

\* lines 179-188: one page arrives, with or without a NextToken
SpotPage(t, page, more) ==
    /\ threads[t].kind = "spot" /\ threads[t].pc = "page"
    /\ Len(threads[t].info) + Len(page) <= MaxInfo
    /\ threads' = [threads EXCEPT ![t].info = threads[t].info \o page,
                                  ![t].pc = IF more THEN "page" ELSE "lock"]
    /\ UNCHANGED <<on_demand_price_dict, spot_price_list, terminate_thread,
                   all_bid_advisor_threads, on_demand_refresh_interval, lock, clients>>

\* lines 182-183, 189-190: the page request fails. @retry starts over with
\* an empty spot_price_info; after the last attempt the exception reaches
\* lines 204-208, where the thread sleeps with the exception pending.
SpotAttemptFail(t) ==
    /\ threads[t].kind = "spot" /\ threads[t].pc = "page"
    /\ threads' = [threads EXCEPT
           ![t].info = <<>>,
           ![t].pc = IF threads[t].attempt < MaxAttempts THEN "page" ELSE "sleep",
           ![t].attempt = IF threads[t].attempt < MaxAttempts THEN threads[t].attempt + 1 ELSE 0,
           ![t].last = IF threads[t].attempt < MaxAttempts THEN threads[t].last ELSE "failed"]
    /\ UNCHANGED <<on_demand_price_dict, spot_price_list, terminate_thread,
                   all_bid_advisor_threads, on_demand_refresh_interval, lock, clients>>

\* line 195
SpotAcquire(t) ==
    /\ threads[t].kind = "spot" /\ threads[t].pc = "lock"
    /\ lock = Free
    /\ lock' = ThreadHolds(t)
    /\ threads' = [threads EXCEPT ![t].pc = "write"]
    /\ UNCHANGED <<on_demand_price_dict, spot_price_list, terminate_thread,
                   all_bid_advisor_threads, on_demand_refresh_interval, clients>>

\* lines 196-197, 208: the list is replaced, the lock released, and the
\* thread sleeps
SpotWrite(t) ==
    /\ threads[t].kind = "spot" /\ threads[t].pc = "write"
    /\ spot_price_list' = threads[t].info
    /\ lock' = Free
    /\ threads' = [threads EXCEPT ![t].pc = "sleep", ![t].info = <<>>,
                                  ![t].attempt = 0, ![t].last = "ok"]
    /\ UNCHANGED <<on_demand_price_dict, terminate_thread, all_bid_advisor_threads,
                   on_demand_refresh_interval, clients>>

\* line 208 returns: back to the while test, or, after a failed cycle, the
\* exception raised at line 205 leaves run()
SpotWake(t) ==
    /\ threads[t].kind = "spot" /\ threads[t].pc = "sleep"
    /\ threads' = [threads EXCEPT
           ![t].pc = IF threads[t].last = "failed" THEN "crashed" ELSE "loop"]
    /\ UNCHANGED <<on_demand_price_dict, spot_price_list, terminate_thread,
                   all_bid_advisor_threads, on_demand_refresh_interval, lock, clients>>

----------------------------------------------------------------------------
\* AWSBidAdvisor.run()

\* line 212-214: return if threads are registered, else go on to create them
RunCheck(c) ==
    /\ clients[c].pc = "idle"
    /\ all_bid_advisor_threads = <<>> => Cardinality(Unused) - Pending >= 2
    /\ clients' = [clients EXCEPT ![c] =
           IF all_bid_advisor_threads # <<>>
           THEN [IdleClient EXCEPT !.ret = [op |-> "run", launched |-> FALSE]]
           ELSE [IdleClient EXCEPT !.pc = "run_223"]]
    /\ UNCHANGED <<on_demand_price_dict, spot_price_list, terminate_thread,
                   all_bid_advisor_threads, on_demand_refresh_interval, lock, threads>>

\* lines 221-223
RunAppendOd(c) ==
    /\ clients[c].pc = "run_223"
    /\ LET t == Min(Unused)
       IN  /\ threads' = [threads EXCEPT ![t] = NewThread("od")]
           /\ all_bid_advisor_threads' = Append(all_bid_advisor_threads, t)
           /\ clients' = [clients EXCEPT ![c].od = t, ![c].pc = "run_227"]
    /\ UNCHANGED <<on_demand_price_dict, spot_price_list, terminate_thread,
                   on_demand_refresh_interval, lock>>

\* lines 225-227
RunAppendSpot(c) ==
    /\ clients[c].pc = "run_227"
    /\ LET t == Min(Unused)
       IN  /\ threads' = [threads EXCEPT ![t] = NewThread("spot")]
           /\ all_bid_advisor_threads' = Append(all_bid_advisor_threads, t)
           /\ clients' = [clients EXCEPT ![c].spot = t, ![c].pc = "run_229"]
    /\ UNCHANGED <<on_demand_price_dict, spot_price_list, terminate_thread,
                   on_demand_refresh_interval, lock>>

\* A slip the stop flag would show: run() clears the flag when it starts
\* the refreshers.
RunStartOdClearingFlag(c) ==
    /\ clients[c].pc = "run_229"
    /\ terminate_thread' = FALSE
    /\ threads' = [threads EXCEPT ![clients[c].od].pc = "begin"]
    /\ clients' = [clients EXCEPT ![c].pc = "run_230"]
    /\ UNCHANGED <<on_demand_price_dict, spot_price_list,
                   all_bid_advisor_threads, on_demand_refresh_interval, lock>>

\* line 229
RunStartOd(c) ==
    /\ clients[c].pc = "run_229"
    /\ threads' = [threads EXCEPT ![clients[c].od].pc = "begin"]
    /\ clients' = [clients EXCEPT ![c].pc = "run_230"]
    /\ UNCHANGED <<on_demand_price_dict, spot_price_list, terminate_thread,
                   all_bid_advisor_threads, on_demand_refresh_interval, lock>>

\* line 230
RunStartSpot(c) ==
    /\ clients[c].pc = "run_230"
    /\ threads' = [threads EXCEPT ![clients[c].spot].pc = "loop"]
    /\ clients' = [clients EXCEPT ![c].pc = "run_236"]
    /\ UNCHANGED <<on_demand_price_dict, spot_price_list, terminate_thread,
                   all_bid_advisor_threads, on_demand_refresh_interval, lock>>

\* line 236
RunAcquire(c) ==
    /\ clients[c].pc = "run_236"
    /\ lock = Free
    /\ lock' = ClientHolds(c)
    /\ clients' = [clients EXCEPT ![c].pc = "run_237"]
    /\ UNCHANGED <<on_demand_price_dict, spot_price_list, terminate_thread,
                   all_bid_advisor_threads, on_demand_refresh_interval, threads>>

\* the test of line 237
Warm == ~DictEmpty(on_demand_price_dict) /\ spot_price_list # <<>>

\* lines 237-240: the test under the lock; either way the lock is released
\* and the finally clause sleeps, before the return or before the next turn
\* A slip the lock discipline would show: the sleep of line 240 inside the
\* with block.
RunTestSleepingInLock(c) ==
    /\ clients[c].pc = "run_237"
    /\ clients' = [clients EXCEPT ![c].pc = IF Warm THEN "run_return" ELSE "run_sleep"]
    /\ UNCHANGED <<on_demand_price_dict, spot_price_list, terminate_thread,
                   all_bid_advisor_threads, on_demand_refresh_interval, lock, threads>>

RunTest(c) ==
    /\ clients[c].pc = "run_237"
    /\ lock' = Free
    /\ clients' = [clients EXCEPT ![c].pc = IF Warm THEN "run_return" ELSE "run_sleep"]
    /\ UNCHANGED <<on_demand_price_dict, spot_price_list, terminate_thread,
                   all_bid_advisor_threads, on_demand_refresh_interval, threads>>

\* line 240 returns: the next turn of the loop, or the return of line 238
RunWake(c) ==
    /\ clients[c].pc \in {"run_sleep", "run_return"}
    /\ clients' = [clients EXCEPT ![c] =
           IF clients[c].pc = "run_sleep"
           THEN [clients[c] EXCEPT !.pc = "run_236"]
           ELSE [IdleClient EXCEPT !.ret = [op |-> "run", launched |-> TRUE]]]
    /\ UNCHANGED <<on_demand_price_dict, spot_price_list, terminate_thread,
                   all_bid_advisor_threads, on_demand_refresh_interval, lock, threads>>

----------------------------------------------------------------------------
\* AWSBidAdvisor.shutdown()

\* line 354
ShutdownSetFlag(c) ==
    /\ clients[c].pc = "idle"
    /\ terminate_thread' = TRUE
    /\ clients' = [clients EXCEPT ![c] = [IdleClient EXCEPT !.pc = "sd_355", !.i = 1]]
    /\ UNCHANGED <<on_demand_price_dict, spot_price_list, all_bid_advisor_threads,
                   on_demand_refresh_interval, lock, threads>>

\* line 355-356: the list iterator gives the next thread, or the loop ends;
\* Thread.join() raises RuntimeError for a thread that was not started
ShutdownNext(c) ==
    /\ clients[c].pc = "sd_355"
    /\ clients' = [clients EXCEPT ![c] =
           IF clients[c].i > Len(all_bid_advisor_threads)
           THEN [clients[c] EXCEPT !.pc = "sd_358"]
           ELSE IF threads[all_bid_advisor_threads[clients[c].i]].pc = "unstarted"
           THEN [IdleClient EXCEPT !.ret = [op |-> "shutdown", error |-> TRUE]]
           ELSE [clients[c] EXCEPT !.pc = "sd_join",
                                   !.joining = all_bid_advisor_threads[clients[c].i]]]
    /\ UNCHANGED <<on_demand_price_dict, spot_price_list, terminate_thread,
                   all_bid_advisor_threads, on_demand_refresh_interval, lock, threads>>

\* line 356: join() returns once the thread is dead
ShutdownJoined(c) ==
    /\ clients[c].pc = "sd_join"
    /\ Dead(clients[c].joining)
    /\ clients' = [clients EXCEPT ![c].pc = "sd_355", ![c].i = clients[c].i + 1,
                                  ![c].joining = 0]
    /\ UNCHANGED <<on_demand_price_dict, spot_price_list, terminate_thread,
                   all_bid_advisor_threads, on_demand_refresh_interval, lock, threads>>

\* lines 358-359
ShutdownClear(c) ==
    /\ clients[c].pc = "sd_358"
    /\ all_bid_advisor_threads' = <<>>
    /\ clients' = [clients EXCEPT ![c] =
           [IdleClient EXCEPT !.ret = [op |-> "shutdown", error |-> FALSE]]]
    /\ UNCHANGED <<on_demand_price_dict, spot_price_list, terminate_thread,
                   on_demand_refresh_interval, lock, threads>>

----------------------------------------------------------------------------
\* The readers

\* get_new_bid is called and reaches line 327
BidCall(c) ==
    /\ clients[c].pc = "idle"
    /\ clients' = [clients EXCEPT ![c] = [IdleClient EXCEPT !.pc = "bid_327"]]
    /\ UNCHANGED <<on_demand_price_dict, spot_price_list, terminate_thread,
                   all_bid_advisor_threads, on_demand_refresh_interval, lock, threads>>

\* line 327: the lock is taken
BidAcquire(c) ==
    /\ clients[c].pc = "bid_327"
    /\ lock = Free
    /\ lock' = ClientHolds(c)
    /\ clients' = [clients EXCEPT ![c] = [IdleClient EXCEPT !.pc = "bid_328"]]
    /\ UNCHANGED <<on_demand_price_dict, spot_price_list, terminate_thread,
                   all_bid_advisor_threads, on_demand_refresh_interval, threads>>

\* lines 328-350, and the release of the lock
BidReturn(c, zones, instance_type) ==
    /\ clients[c].pc = "bid_328"
    /\ lock' = Free
    /\ LET r == get_new_bid(on_demand_price_dict, spot_price_list, zones, instance_type)
       IN  clients' = [clients EXCEPT ![c] = [IdleClient EXCEPT !.ret =
               [op |-> "get_new_bid", zones |-> zones, instance_type |-> instance_type,
                bid |-> r.bid, logged |-> r.logged]]]
    /\ UNCHANGED <<on_demand_price_dict, spot_price_list, terminate_thread,
                   all_bid_advisor_threads, on_demand_refresh_interval, threads>>

\* get_current_price is called and reaches line 278
PriceCall(c) ==
    /\ clients[c].pc = "idle"
    /\ clients' = [clients EXCEPT ![c] = [IdleClient EXCEPT !.pc = "price_278"]]
    /\ UNCHANGED <<on_demand_price_dict, spot_price_list, terminate_thread,
                   all_bid_advisor_threads, on_demand_refresh_interval, lock, threads>>

\* line 278: the lock is taken
PriceAcquire(c) ==
    /\ clients[c].pc = "price_278"
    /\ lock = Free
    /\ lock' = ClientHolds(c)
    /\ clients' = [clients EXCEPT ![c] = [IdleClient EXCEPT !.pc = "price_279"]]
    /\ UNCHANGED <<on_demand_price_dict, spot_price_list, terminate_thread,
                   all_bid_advisor_threads, on_demand_refresh_interval, threads>>

\* lines 279-281: the price map holds the table and the list themselves,
\* not copies. The list is only ever replaced, so what the map shows of it
\* is the list of this moment; the table is written in place, so what the
\* map shows of it is on_demand_price_dict at every later moment.
PriceReturn(c) ==
    /\ clients[c].pc = "price_279"
    /\ lock' = Free
    /\ clients' = [clients EXCEPT ![c] = [IdleClient EXCEPT !.ret =
           [op |-> "get_current_price", spot |-> spot_price_list]]]
    /\ UNCHANGED <<on_demand_price_dict, spot_price_list, terminate_thread,
                   all_bid_advisor_threads, on_demand_refresh_interval, threads>>

----------------------------------------------------------------------------
\* Specifications

\* What the feeds can deliver.
OdResponses == SeqsUpTo(OdRows, MaxRows)

SpotPages == SeqsUpTo(SpotSamples, 1)

ZoneLists == SeqsUpTo(Zones, MaxZones)

\* The on-demand refresher's steps while its feed answers, from responses.
OnDemandUpdater(t, responses) ==
    \/ OdBegin(t)
    \/ OdLoop(t)
    \/ \E rows \in responses : OdRequest(t, rows)
    \/ OdParseRow(t)
    \/ OdParseDone(t)
    \/ OdWake(t)

\* The spot refresher's steps while its feed answers, with a page from pages
\* and a NextToken or not as mores says.
SpotInstancePriceUpdater(t, pages, mores) ==
    \/ SpotLoop(t)
    \/ \E page \in pages, more \in mores : SpotPage(t, page, more)
    \/ SpotAcquire(t)
    \/ SpotWrite(t)
    \/ SpotWake(t)

Run(c) ==
    \/ RunCheck(c)
    \/ RunAppendOd(c)
    \/ RunAppendSpot(c)
    \/ RunStartOd(c)
    \/ RunStartSpot(c)
    \/ RunAcquire(c)
    \/ RunTest(c)
    \/ RunWake(c)

\* shutdown() once called
ShutdownSteps(c) ==
    \/ ShutdownNext(c)
    \/ ShutdownJoined(c)
    \/ ShutdownClear(c)

Shutdown(c) ==
    \/ ShutdownSetFlag(c)
    \/ ShutdownSteps(c)

Reader(c) ==
    \/ BidCall(c)
    \/ BidAcquire(c)
    \/ \E zones \in ZoneLists, x \in InstanceTypes : BidReturn(c, zones, x)
    \/ PriceCall(c)
    \/ PriceAcquire(c)
    \/ PriceReturn(c)

Next ==
    \/ \E t \in ThreadIds : OnDemandUpdater(t, OdResponses) \/ OdAttemptFail(t)
    \/ \E t \in ThreadIds : SpotInstancePriceUpdater(t, SpotPages, BOOLEAN) \/ SpotAttemptFail(t)
    \/ \E c \in Clients : Run(c) \/ Shutdown(c) \/ Reader(c)

\* The advisor with its callers and refreshers, every call from every
\* caller, all interleaved.
Spec == Init /\ [][Next]_vars

\* A feed that answers with one row, and one that answers with one sample.
OneRow == {<<[InstanceType |-> "m3.large", PricePerUnit |-> 70, Relevant |-> TRUE]>>}

OnePage == {<<[InstanceType |-> "m3.large", AvailabilityZone |-> "us-west-2a",
               SpotPrice |-> 40, Timestamp |-> 1]>>}

\* Two callers of run(): each calls run() at any time, again and again,
\* while the refreshers they start fetch one row and one sample per cycle.
StartNext ==
    \/ \E t \in ThreadIds : OnDemandUpdater(t, OneRow)
    \/ \E t \in ThreadIds : SpotInstancePriceUpdater(t, OnePage, {FALSE})
    \/ Run(1)
    \/ Run(2)

StartSpec == Init /\ [][StartNext]_vars

\* run() against shutdown(): caller 1 calls run(), caller 2 calls
\* shutdown(), each at any time, again and again, while the refreshers fetch
\* one row and one sample per cycle.
StopNext ==
    \/ \E t \in ThreadIds : OnDemandUpdater(t, OneRow)
    \/ \E t \in ThreadIds : SpotInstancePriceUpdater(t, OnePage, {FALSE})
    \/ Run(1)
    \/ Shutdown(2)

StopSpec == Init /\ [][StopNext]_vars

\* One caller: caller 1 calls run() and shutdown() one after the other, in
\* any order, while the refreshers fetch, fail and retry. Every thread that
\* can take a step takes one in the end: a fetch attempt answers or fails,
\* a sleep ends, a lock that is free is taken.
SeqNext ==
    \/ \E t \in ThreadIds : OnDemandUpdater(t, OneRow) \/ OdAttemptFail(t)
    \/ \E t \in ThreadIds : SpotInstancePriceUpdater(t, OnePage, {FALSE}) \/ SpotAttemptFail(t)
    \/ Run(1)
    \/ Shutdown(1)

SeqFairness ==
    /\ \A t \in ThreadIds : WF_vars(OnDemandUpdater(t, OneRow) \/ OdAttemptFail(t))
    /\ \A t \in ThreadIds :
           WF_vars(SpotInstancePriceUpdater(t, OnePage, {FALSE}) \/ SpotAttemptFail(t))
    /\ WF_vars(ShutdownSteps(1))

SeqSpec == Init /\ [][SeqNext]_vars /\ SeqFairness

\* The on-demand refresher and a reader: caller 1 calls run(), caller 2
\* calls get_current_price(), and the on-demand refresher fetches, fails and
\* retries, its feed answering with up to MaxRows rows.
OdFeedRows ==
    [InstanceType : {"m3.large"}, PricePerUnit : OdPrices, Relevant : {TRUE}]
    \cup {[InstanceType |-> "c3.large", PricePerUnit |-> 50, Relevant |-> TRUE],
          [InstanceType |-> "c3.large", PricePerUnit |-> 70, Relevant |-> FALSE]}

OdNext ==
    \/ \E t \in ThreadIds : OnDemandUpdater(t, SeqsUpTo(OdFeedRows, MaxRows)) \/ OdAttemptFail(t)
    \/ Run(1)
    \/ PriceCall(2)
    \/ PriceAcquire(2)
    \/ PriceReturn(2)

OdSpec == Init /\ [][OdNext]_vars

\* The spot refresher and a reader: caller 1 calls run(), caller 2 calls
\* get_current_price(), and the spot refresher fetches, fails and retries,
\* its feed answering in pages of at most one sample.
SpotFeedPages ==
    SeqsUpTo([InstanceType : {"m3.large"}, AvailabilityZone : {"us-west-2a"},
              SpotPrice : {40, 56}, Timestamp : {1}], 1)

SpotNext ==
    \/ \E t \in ThreadIds : SpotInstancePriceUpdater(t, SpotFeedPages, BOOLEAN) \/ SpotAttemptFail(t)
    \/ Run(1)
    \/ PriceCall(2)
    \/ PriceAcquire(2)
    \/ PriceReturn(2)

SpotSpec == Init /\ [][SpotNext]_vars

\* Two callers of run() and a failing feed: each caller calls run() at any
\* time, and the on-demand refreshers they start fetch one row per cycle,
\* fail and retry.
DelayNext ==
    \/ \E t \in ThreadIds : OnDemandUpdater(t, OneRow) \/ OdAttemptFail(t)
    \/ Run(1)
    \/ Run(2)

DelaySpec == Init /\ [][DelayNext]_vars

\* The lock: caller 1 calls run(), caller 2 calls get_new_bid() and
\* get_current_price(), and the refreshers fetch one row and one sample per
\* cycle, fail and retry. Whoever holds the lock goes on to release it, and
\* a reader waiting for the lock gets it if it is free again and again.
LockNext ==
    \/ \E t \in ThreadIds : OnDemandUpdater(t, OneRow) \/ OdAttemptFail(t)
    \/ \E t \in ThreadIds : SpotInstancePriceUpdater(t, OnePage, {FALSE}) \/ SpotAttemptFail(t)
    \/ Run(1)
    \/ Reader(2)

LockFairness ==
    /\ \A t \in ThreadIds : WF_vars(SpotWrite(t))
    /\ WF_vars(RunTest(1))
    /\ WF_vars(\E zones \in ZoneLists, x \in InstanceTypes : BidReturn(2, zones, x))
    /\ WF_vars(PriceReturn(2))
    /\ SF_vars(BidAcquire(2))
    /\ SF_vars(PriceAcquire(2))

LockSpec == Init /\ [][LockNext]_vars /\ LockFairness

\* Warm and after: caller 1 calls run(), caller 2 calls get_new_bid() for
\* one type in one zone, the on-demand refresher fetches one row per cycle,
\* and the spot refresher fetches a window of one sample or of none.
WarmNext ==
    \/ \E t \in ThreadIds : OnDemandUpdater(t, OneRow)
    \/ \E t \in ThreadIds : SpotInstancePriceUpdater(t, SpotFeedPages, {FALSE})
    \/ Run(1)
    \/ BidCall(2)
    \/ BidAcquire(2)
    \/ BidReturn(2, <<"us-west-2a">>, "m3.large")

WarmSpec == Init /\ [][WarmNext]_vars

\* get_new_bid alone, on every pair of tables within the bounds.
BidInit ==
    /\ on_demand_price_dict \in [InstanceTypes -> OdPrices \cup {None}]
    /\ spot_price_list \in SeqsUpTo(SpotSamples, MaxSamples)
    /\ terminate_thread = FALSE
    /\ all_bid_advisor_threads = <<>>
    /\ on_demand_refresh_interval \in Intervals
    /\ lock = Free
    /\ threads = [t \in ThreadIds |-> NoThread]
    /\ clients = [c \in Clients |-> IdleClient]

BidNext ==
    \/ BidCall(1)
    \/ BidAcquire(1)
    \/ \E zones \in ZoneLists, x \in InstanceTypes : BidReturn(1, zones, x)

BidSpec == BidInit /\ [][BidNext]_vars

----------------------------------------------------------------------------
\* Properties of get_new_bid, checked under BidSpec, where the tables stay
\* as they were when the call was made.

\* The calls of get_new_bid that have returned.
Bids == {clients[c].ret : c \in {d \in Clients : clients[d].ret.op = "get_new_bid"}}

\* the zones of a call in which the list has a sample of the type
MatchingZones(r) ==
    {i \in 1..Len(r.zones) :
        get_spot_instance_price(spot_price_list, r.instance_type, r.zones[i]) # None}

Max(S) == CHOOSE x \in S : \A y \in S : y <= x

\* Both tables hold something.
BothTablesNonEmpty ==
    /\ \E x \in InstanceTypes : on_demand_price_dict[x] # None
    /\ Len(spot_price_list) > 0

\* C1: with both tables non-empty, a call for which no cached sample matches
\* the type in any of the zones asked for returns the default (type
\* on-demand, no price), also when the type has an on-demand price.
C1_NoMatchGivesDefault ==
    \A r \in Bids : (BothTablesNonEmpty /\ MatchingZones(r) = {}) => r.bid = DEFAULT_BID

\* C8: a call made while the on-demand table or the spot list is empty
\* returns the default bid, type on-demand with no price, for every type
\* and zone list.
C8_DefaultBeforeWarm ==
    \A r \in Bids : ~BothTablesNonEmpty => (r.bid = DEFAULT_BID /\ r.logged = <<>>)

\* C8's case: the type has an on-demand price, the spot list is empty, and
\* the call returned the default.
C8_Witness ==
    \E r \in Bids : /\ on_demand_price_dict[r.instance_type] \notin {None, 0}
                    /\ spot_price_list = <<>>
                    /\ r.zones # <<>>
                    /\ r.bid = DEFAULT_BID

\* C9: with threshold 0.8 the decision is SPOT at the on-demand price d
\* exactly when the spot price s is at most 0.8 * d, the boundary included,
\* and ON_DEMAND with an empty price otherwise.
C9_ThresholdRule ==
    \A r \in Bids : r.logged # <<>> =>
        LET s == r.logged[1]
            d == r.logged[2]
        IN  IF 100 * s <= ThresholdCents * d
            THEN r.bid = [type |-> "spot", price |-> PyStr(d)]
            ELSE r.bid = [type |-> "on-demand", price |-> <<>>]

\* C10: the spot price compared against the on-demand price is the highest
\* of the prices selected for the zones that have a matching sample; zones
\* without one contribute nothing.
C10_MaxAcrossZones ==
    \A r \in Bids : (r.logged # <<>> /\ MatchingZones(r) # {}) =>
        r.logged[1] = Max({get_spot_instance_price(spot_price_list, r.instance_type,
                                                   r.zones[i]) : i \in MatchingZones(r)})

\* C10's case: two zones with different prices, the higher asked for first.
C10_Witness ==
    \E r \in Bids :
        /\ Len(r.zones) = 2 /\ MatchingZones(r) = {1, 2}
        /\ get_spot_instance_price(spot_price_list, r.instance_type, r.zones[1])
             > get_spot_instance_price(spot_price_list, r.instance_type, r.zones[2])
        /\ r.logged # <<>>
        /\ r.logged[1] = get_spot_instance_price(spot_price_list, r.instance_type, r.zones[1])

----------------------------------------------------------------------------
\* Properties of the refreshers and of the lifecycle

OdThreads == {t \in ThreadIds : threads[t].kind = "od"}

SpotThreads == {t \in ThreadIds : threads[t].kind = "spot"}

\* The callers that hold a price map of get_current_price, or are taking one
\* under the lock.
PriceReaders ==
    {c \in Clients : clients[c].pc = "price_279" \/ clients[c].ret.op = "get_current_price"}

\* C2: the on-demand table a reader observes is the table as it was before
\* the fetch pass in progress began, or the table that pass leaves when it
\* has run over all its rows, never one with only some of its rows applied.
\* Stated for the first attempt of a cycle, checked under OdSpec.
C2_ReaderSeesWholePasses ==
    PriceReaders # {} =>
        \A t \in OdThreads :
            (threads[t].pc = "parse" /\ threads[t].attempt = 1) =>
                \/ on_demand_price_dict = threads[t].cycle_start
                \/ on_demand_price_dict = ParseRows(on_demand_price_dict, threads[t].rows)

\* C3: a spot refresher does not end because a fetch cycle failed: while
\* stop has not been requested, no spot refresher is dead. Checked under
\* SpotSpec.
C3_SpotRefresherSurvivesFailure ==
    \A t \in SpotThreads : Dead(t) => terminate_thread

\* C4: however run() is called, at most one on-demand refresher and at most
\* one spot refresher are running at any time. Checked under StartSpec.
C4_OneRefresherOfEachKind ==
    /\ Cardinality({t \in OdThreads : Alive(t)}) <= 1
    /\ Cardinality({t \in SpotThreads : Alive(t)}) <= 1

RunReturned(c) == clients[c].ret.op = "run"

\* C5: whenever a call of run() has returned, both tables are non-empty,
\* also for a call made while the refreshers are already registered.
\* Checked under StartSpec, where no table that holds something is emptied
\* again.
C5_EveryRunReturnsWarm ==
    \A c \in Clients : RunReturned(c) => BothTablesNonEmpty

\* started by run(), at some time
Launched(t) == threads[t].pc \notin {"none", "unstarted"}

\* C6: when shutdown() returns, every refresher thread that was ever
\* started has left its loop. Checked under StopSpec.
C6_ShutdownLeavesNoRefresher ==
    [][\A c \in Clients :
          (clients[c].pc = "sd_358" /\ clients'[c].pc = "idle")
              => \A t \in ThreadIds : Launched(t)' => Dead(t)']_vars

InShutdown(c) == clients[c].pc \in {"sd_355", "sd_join", "sd_358"}

ShutdownReturned(c) == clients[c].ret = [op |-> "shutdown", error |-> FALSE]

\* C7: a caller that uses the advisor from one thread can call shutdown()
\* before run(), after run() and again after shutdown(): every such call
\* returns in the end, without an error, given that every fetch attempt and
\* every sleep ends. Checked under SeqSpec.
C7_ShutdownReturns ==
    \A c \in Clients : InShutdown(c) ~> ShutdownReturned(c)

\* C7's case: shutdown() has returned after joining refreshers that run()
\* had started.
C7_Witness ==
    /\ ShutdownReturned(1)
    /\ \E t \in OdThreads : threads[t].pc = "exited" /\ threads[t].last # "none"
    /\ \E t \in SpotThreads : Dead(t) /\ threads[t].last # "none"

----------------------------------------------------------------------------
\* Properties of the on-demand refresher

\* C11: the on-demand refresher never ends because a fetch or a parse
\* failed: its run() is never left by an exception, it has returned only if
\* the stop flag is set, and a refresher sleeping after a failed cycle goes
\* on to a new fetch attempt unless stop is requested. Checked under
\* SeqSpec, where every sleep ends.
C11_OdRefresherOnlyStopsOnFlag ==
    /\ [](\A t \in OdThreads : /\ threads[t].pc # "crashed"
                               /\ threads[t].pc = "exited" => terminate_thread)
    /\ \A t \in ThreadIds :
           (threads[t].kind = "od" /\ threads[t].pc = "sleep" /\ threads[t].last = "failed")
               ~> (threads[t].pc = "request" \/ terminate_thread)

\* C11's case: a cycle has failed and the refresher has started the next.
C11_Witness ==
    \E t \in OdThreads : /\ threads[t].last = "failed" /\ threads[t].pc = "request"
                         /\ ~terminate_thread

\* the prices above 0 that the rows of a pass name for a type
PassPrices(rows, x) ==
    {rows[i].PricePerUnit : i \in {j \in 1..Len(rows) :
        rows[j].Relevant /\ rows[j].InstanceType = x /\ rows[j].PricePerUnit > 0}}

\* An on-demand refresher has completed a successful pass and sleeps.
PassCompleted(t) ==
    threads[t].kind = "od" /\ threads[t].pc = "sleep" /\ threads[t].last = "ok"

\* C12: after a completed successful pass, the cached price of every type
\* the pass has a price for is the highest price above 0 among that pass's
\* rows for the type, also when an earlier pass cached a higher one.
\* Checked under OdSpec.
C12_PassReplacesItsKeys ==
    \A t \in ThreadIds : PassCompleted(t) =>
        \A x \in InstanceTypes :
            PassPrices(threads[t].pass_rows, x) # {} =>
                on_demand_price_dict[x] = Max(PassPrices(threads[t].pass_rows, x))

\* The on-demand refresher t applies the next row of its response in this step.
ParsesRow(t) ==
    /\ threads[t].kind = "od" /\ threads[t].pc = "parse" /\ threads'[t].pc = "parse"
    /\ threads[t].rows # <<>>
    /\ threads'[t].rows = Tail(threads[t].rows)

\* the rows (x, 0.50) and (x, 0.70)
RowAt(x, p) == [InstanceType |-> x, PricePerUnit |-> p, Relevant |-> TRUE]

\* C13: reconciling a row (X, p) that passes the filter changes the entry of
\* X only: with no prior entry it becomes p; a prior price q stays when p is
\* 0 or p <= q and becomes p when p > q. Rows 0.50 and 0.70 for one type
\* reconcile to 0.70 in either order. Checked under OdSpec.
C13_RowReconciliation ==
    [][\A t \in ThreadIds : ParsesRow(t) =>
          LET row == Head(threads[t].rows)
              x == row.InstanceType
              p == row.PricePerUnit
              q == on_demand_price_dict[x]
          IN  /\ row.Relevant =>
                   /\ on_demand_price_dict'[x] =
                          IF q = None THEN p ELSE IF p = 0 \/ p <= q THEN q ELSE p
                   /\ \A y \in InstanceTypes \ {x} :
                          on_demand_price_dict'[y] = on_demand_price_dict[y]
              /\ ~row.Relevant => on_demand_price_dict' = on_demand_price_dict
              /\ ParseRows(threads[t].cycle_start, <<RowAt(x, 50), RowAt(x, 70)>>)
                   = ParseRows(threads[t].cycle_start, <<RowAt(x, 70), RowAt(x, 50)>>)
              /\ threads[t].cycle_start[x] = None =>
                   ParseRows(threads[t].cycle_start, <<RowAt(x, 50), RowAt(x, 70)>>)[x] = 70
      ]_vars

\* C13's case: a row with price 0 has just been reconciled against a prior
\* price, which stayed.
C13_Witness ==
    \E t \in OdThreads :
        /\ threads[t].pc = "parse" /\ threads[t].attempt = 1
        /\ Len(threads[t].pass_rows) = 2 /\ Len(threads[t].rows) = 0
        /\ threads[t].pass_rows[2].Relevant /\ threads[t].pass_rows[2].PricePerUnit = 0
        /\ threads[t].pass_rows[1].Relevant /\ threads[t].pass_rows[1].PricePerUnit > 0
        /\ threads[t].pass_rows[1].InstanceType = threads[t].pass_rows[2].InstanceType
        /\ on_demand_price_dict[threads[t].pass_rows[2].InstanceType] > 0

----------------------------------------------------------------------------
\* Properties of the spot refresher

\* C14: the cached spot list changes only in the step of line 196, taken
\* under the lock, to everything the writing thread gathered in a fetch
\* whose last page had no NextToken; a fetch attempt that fails starts over
\* from nothing and leaves the cached list as it was; and the list a reader
\* is handed is the cached list of that moment. Checked under SpotSpec.
C14_SpotListIsWholeFetch ==
    [][/\ spot_price_list' # spot_price_list =>
            \E t \in ThreadIds :
                /\ threads[t].kind = "spot" /\ threads[t].pc = "write"
                /\ lock = ThreadHolds(t)
                /\ spot_price_list' = threads[t].info
       /\ \A t \in ThreadIds :
            /\ (threads[t].kind = "spot" /\ threads'[t].pc \in {"lock", "write"}) =>
                   \/ threads'[t].info = threads[t].info /\ threads[t].pc \in {"lock", "write"}
                   \/ /\ threads[t].pc = "page"
                      /\ \E page \in SpotPages : threads'[t].info = threads[t].info \o page
            /\ (threads[t].kind = "spot" /\ threads[t].pc = "page"
                  /\ threads'[t].attempt # threads[t].attempt) =>
                   (threads'[t].info = <<>> /\ spot_price_list' = spot_price_list)
       /\ \A c \in Clients :
            (clients[c].pc = "price_279" /\ clients'[c].pc = "idle") =>
                clients'[c].ret.spot = spot_price_list
      ]_vars

\* C14's case: a two-page fetch is cached and held by a reader while a
\* later fetch, restarted after a failed attempt, has one page.
C14_Witness ==
    /\ Len(spot_price_list) = 2
    /\ \E t \in SpotThreads :
           threads[t].pc = "page" /\ threads[t].attempt = 2 /\ Len(threads[t].info) = 1
    /\ \E c \in Clients :
           clients[c].ret.op = "get_current_price" /\ clients[c].ret.spot = spot_price_list

\* The on-demand refresher t gives up its cycle in this step.
CycleFails(t) ==
    /\ threads[t].kind = "od" /\ threads[t].pc \in {"request", "parse"}
    /\ threads'[t].pc = "sleep" /\ threads'[t].last = "failed"

\* C15: an on-demand cycle that fails keeps the stale data: when the cycle
\* is given up, the table is the table as it was when the cycle began.
\* Checked under OdSpec, where one refresher alone writes the table.
C15_FailedCycleKeepsTable ==
    [][\A t \in ThreadIds :
          CycleFails(t) => on_demand_price_dict' = threads[t].cycle_start]_vars

\* C16: the sleep after a failed on-demand cycle is of 2 minutes, and the
\* sleep after a successful cycle is of the interval the advisor was
\* constructed with, whatever came before. Checked under DelaySpec.
C16_DelayPolicy ==
    \A t \in OdThreads :
        threads[t].pc = "sleep" =>
            IF threads[t].last = "failed"
            THEN threads[t].slept = 2 * SECONDS_PER_MINUTE
            ELSE threads[t].slept \in Intervals

----------------------------------------------------------------------------
\* Properties of the lock

\* The refreshers that are fetching, between attempts or asleep, and the
\* callers of run() that are asleep.
ThreadsOutsideMemory ==
    {t \in ThreadIds : threads[t].pc \in {"request", "parse", "page", "sleep"}}

ClientsAsleep == {c \in Clients : clients[c].pc \in {"run_sleep", "run_return"}}

WaitsForLock(c) == clients[c].pc \in {"bid_327", "price_278"}

ReaderReturned(c) ==
    clients[c].pc = "idle" /\ clients[c].ret.op \in {"get_new_bid", "get_current_price"}

\* C17: no thread holds the lock while it fetches, waits between attempts
\* or sleeps: the holder is a spot refresher at line 196, run() at line 237
\* or a reader inside its with block; and every reader that waits for the
\* lock gets it and returns. Checked under LockSpec.
C17_LockOnlyForMemory ==
    /\ [](/\ \A t \in ThreadsOutsideMemory : lock # ThreadHolds(t)
          /\ \A c \in ClientsAsleep : lock # ClientHolds(c)
          /\ \A t \in ThreadIds : lock = ThreadHolds(t) => threads[t].pc = "write"
          /\ \A c \in Clients : lock = ClientHolds(c) =>
                 clients[c].pc \in {"run_237", "bid_328", "price_279"})
    /\ \A c \in Clients : WaitsForLock(c) ~> ReaderReturned(c)

\* C17's case: a reader waits for the lock, which a spot refresher holds,
\* while run() sleeps between two of its tests.
C17_Witness ==
    /\ WaitsForLock(2)
    /\ \E t \in SpotThreads : lock = ThreadHolds(t)
    /\ clients[1].pc = "run_sleep"

----------------------------------------------------------------------------
\* Further properties of get_new_bid, checked under BidSpec

\* the positions of the cached samples of a type in a zone
Matches(list, instance_type, zone) ==
    {i \in 1..Len(list) : /\ list[i].InstanceType = instance_type
                          /\ list[i].AvailabilityZone = zone}

\* the prices of the samples of a type in a zone that no other such sample
\* is later than
LatestPrices(list, instance_type, zone) ==
    LET ms == Matches(list, instance_type, zone)
    IN  {list[i].SpotPrice : i \in {j \in ms : \A k \in ms : list[k].Timestamp <= list[j].Timestamp}}

\* C18: for each zone asked for that has a matching sample, the price
\* get_new_bid selects for the type in the zone is the price of a matching
\* cached sample with the most recent timestamp, whatever the order of the
\* samples in the cached list.
C18_LatestSampleSelected ==
    \A r \in Bids : \A i \in MatchingZones(r) :
        get_spot_instance_price(spot_price_list, r.instance_type, r.zones[i])
            \in LatestPrices(spot_price_list, r.instance_type, r.zones[i])

----------------------------------------------------------------------------
\* Properties of the warm state, checked under WarmSpec

\* C19 as first stated: once both tables are non-empty, both are non-empty
\* in every later state.
C19_WarmStaysWarm ==
    [][BothTablesNonEmpty => BothTablesNonEmpty']_vars

\* get_new_bid returns to caller c in this step.
BidReturns(c) == clients[c].pc = "bid_328" /\ clients'[c].pc = "idle"

\* C19, amended: a type that has an on-demand price keeps having one, so
\* the on-demand table never becomes empty again; the spot list becomes
\* empty again only by the write of a successful fetch that gathered no
\* sample, and a get_new_bid that finds it empty returns the default.
C19_TableStaysListFollowsFetch ==
    [][/\ \A x \in InstanceTypes :
            on_demand_price_dict[x] # None => on_demand_price_dict'[x] # None
       /\ (spot_price_list # <<>> /\ spot_price_list' = <<>>) =>
            \E t \in SpotThreads : /\ threads[t].pc = "write" /\ threads[t].info = <<>>
                                   /\ threads'[t].last = "ok"
       /\ \A c \in Clients :
            (BidReturns(c) /\ spot_price_list = <<>>) => clients'[c].ret.bid = DEFAULT_BID
      ]_vars

\* C19's case: run() has returned, so the cache was warm; the type has an
\* on-demand price, the spot list is empty after a successful fetch, and
\* get_new_bid has returned the default.
C19_Witness ==
    /\ clients[1].ret = [op |-> "run", launched |-> TRUE]
    /\ on_demand_price_dict["m3.large"] # None
    /\ spot_price_list = <<>>
    /\ \E t \in SpotThreads : threads[t].pc = "sleep" /\ threads[t].last = "ok"
    /\ clients[2].ret.op = "get_new_bid" /\ clients[2].ret.bid = DEFAULT_BID

----------------------------------------------------------------------------
\* Properties of the stop flag, checked under StopSpec

\* A thread that has not begun a fetch cycle: not created, not started, at
\* its while test for the first time, or gone from there.
NeverFetched(t) ==
    /\ threads[t].pc \in {"none", "unstarted", "begin", "loop", "exited"}
    /\ threads[t].last = "none" /\ threads[t].attempt = 0

\* C20: the stop flag is never cleared; a refresher that has not begun a
\* fetch cycle when the flag is set never begins one, so the refreshers a
\* later run() starts leave their loops without a fetch; and the tables are
\* written only by refreshers that had begun a cycle.
C20_StopFlagIsForever ==
    [][/\ terminate_thread => terminate_thread'
       /\ \A t \in ThreadIds : (terminate_thread /\ NeverFetched(t)) => NeverFetched(t)'
       /\ (\/ on_demand_price_dict' # on_demand_price_dict
           \/ spot_price_list' # spot_price_list) =>
              \E t \in ThreadIds : /\ ~NeverFetched(t)
                                   /\ threads[t].pc \in {"parse", "write"}
                                   /\ threads'[t] # threads[t]
      ]_vars

\* C20's case: after a run() whose refreshers fetched and a shutdown(), a
\* later run() has started refreshers, which have left their loops without
\* a fetch.
C20_Witness ==
    /\ terminate_thread
    /\ \E t \in OdThreads : Dead(t) /\ threads[t].last # "none"
    /\ \E t \in OdThreads : threads[t].pc = "exited" /\ NeverFetched(t)
    /\ \E t \in SpotThreads : threads[t].pc = "exited" /\ NeverFetched(t)

====
